---- MODULE Spec2Model ----
(***************************************************************************)
(* TaskCoordinator of workflows/task_coordinator.py: one workflow, its     *)
(* tasks, and the asyncio scheduling loop of execute_workflow.             *)
(*                                                                         *)
(* A task's id is its position in workflow.tasks.  asyncio runs one        *)
(* coroutine at a time and switches only at an await, so every action is   *)
(* the code between two awaits: the scheduler's steps are taken while the  *)
(* task coroutines are suspended, and an attempt of a task ends only while *)
(* the scheduler is suspended in asyncio.wait (pc = "wait").               *)
(***************************************************************************)
EXTENDS Integers, Sequences, FiniteSets, TLC

\* Bounds of the model.
MaxTasks == 3
MaxRetries == 1
MaxConcurrent == 2
MaxRuns == 2
MaxAgents == 2
MaxPriority == 2
MaxWorkflows == 2
MaxAdded == 2
MaxMessages == 3
MaxShared == 2
MaxDeps == 2

\* WorkflowTask.priority and create_task's priority default
DefaultPriority == 1
\* WorkflowTask.max_retries
DefaultMaxRetries == 3
\* TaskCoordinator.max_concurrent_tasks as __init__ sets it
DefaultMaxConcurrent == 5

VARIABLES
    tasks,                \* workflow.tasks: sequence of [dependencies, priority, max_retries, agent_id];
                          \* dependencies is a list of task ids
    max_concurrent_tasks, \* TaskCoordinator.max_concurrent_tasks
    status,               \* task.status, by task id
    retry_count,          \* task.retry_count, by task id
    result,               \* task.result: "none", or the worker's "success" or "failed",
                          \* or the coordinator's "timeout" or "error"
    wf_status,            \* workflow.status
    progress,             \* workflow.progress as the fraction <<num, den>>
    error_message,        \* workflow.error_message
    completed_tasks,      \* the local set completed_tasks of _execute_workflow_tasks
    running_tasks,        \* the keys of the local dict running_tasks
    finished,             \* keys of running_tasks whose asyncio task is done
    ready_tasks,          \* the local list ready_tasks (of the current loop iteration)
    pc,                   \* where the scheduler coroutine stands
    attempts,             \* worker calls made for a task since its last dispatch
    dispatches,           \* how often a task was dispatched in the current run
    runs,                 \* how many times execute_workflow was called
    agents,               \* the keys of TaskCoordinator.agents
    outcome,              \* how the latest execute_workflow call ended, and its error
    workflows,            \* TaskCoordinator.workflows while workflows are being built:
                          \* by workflow id, whether it is a key and its task list
    last_call,            \* the latest construction call: its name, its agent or
                          \* workflow argument, whether it raised, its task
    agent_order,          \* the keys of TaskCoordinator.agents in the order of the dict
    message_queue,        \* TaskCoordinator.message_queue
    inbox,                \* by agent id, the message_history of that agent
    last_msg_call,        \* the latest send_message or broadcast_message call
    other,                \* a second workflow in execution: its variables while
                          \* the variables above show the first (see Switch)
    task_history          \* self.task_history: the number of its entries by
                          \* TaskResult.status (the coordinator reads its length
                          \* and the number of "success" entries)

\* the variables of the construction calls
build_vars == <<workflows, last_call>>

\* the variables of send_message and broadcast_message
msg_vars == <<message_queue, inbox, last_msg_call>>

\* the variables of execute_workflow
exec_vars == <<tasks, max_concurrent_tasks, status, retry_count, result, wf_status,
               progress, error_message, completed_tasks, running_tasks, finished,
               ready_tasks, pc, attempts, dispatches, runs, outcome>>

vars == <<tasks, max_concurrent_tasks, status, retry_count, result, wf_status,
          progress, error_message, completed_tasks, running_tasks, finished,
          ready_tasks, pc, attempts, dispatches, runs, agents, outcome,
          workflows, last_call, agent_order, message_queue, inbox,
          last_msg_call, other, task_history>>

TaskIds == 1..MaxTasks
AgentIds == 1..MaxAgents
Ids == 1..Len(tasks)

\* the ids of a set in ascending order
RECURSIVE Ascending(_)
Ascending(S) ==
    IF S = {} THEN <<>>
    ELSE LET m == CHOOSE x \in S : \A y \in S : x <= y
         IN <<m>> \o Ascending(S \ {m})

\* dependency lists that name each id once, in ascending order: one list for
\* every set of ids
DependencyLists == {Ascending(S) : S \in SUBSET TaskIds}

\* dependency lists of up to MaxDeps entries in any order, repeated ids included
AllDependencyLists == UNION {[1..n -> TaskIds] : n \in 0..MaxDeps}

\* task_id: a task is identified by its position in Workflow.tasks, and of the
\* string only what the coordinator tests is kept: whether it is the empty
\* string ("") or not ("T")
NonEmptyTaskIds == {"T"}
AnyTaskIds == {"", "T"}

\* the truth value Python gives a str
Truthy(task_id) == task_id # ""

\* WorkflowTask: the fields the coordinator reads.
WorkflowTask(taskIds, dependencyLists, priorities, retries, agentIds) ==
    [task_id : taskIds, dependencies : dependencyLists, priority : priorities,
     max_retries : retries, agent_id : agentIds]

\* Workflow.tasks: up to MaxTasks tasks with different ids (so at most one has
\* the empty id); the id of a task is its position, and a dependency on an id
\* beyond the length of the list names no task.
Workflows(taskIds, dependencyLists, priorities, retries, agentIds) ==
    {w \in UNION {[1..n -> WorkflowTask(taskIds, dependencyLists, priorities,
                                        retries, agentIds)] : n \in 0..MaxTasks} :
        \A i, j \in 1..Len(w) :
            (~Truthy(w[i].task_id) /\ ~Truthy(w[j].task_id)) => i = j}

Min(a, b) == IF a <= b THEN a ELSE b
Max(a, b) == IF a >= b THEN a ELSE b

\* Python's seq[:k], also for a negative k.
SliceTo(seq, k) ==
    IF k >= 0 THEN SubSeq(seq, 1, Min(k, Len(seq)))
    ELSE SubSeq(seq, 1, Max(Len(seq) + k, 0))

Range(seq) == {seq[i] : i \in 1..Len(seq)}

\* Fractions <<num, den>> with den > 0, for workflow.progress.
FracLeq(a, b) == a[1] * b[2] <= b[1] * a[2]
FracEq(a, b) == a[1] * b[2] = b[1] * a[2]
Hundred == <<100, 1>>

----
\* _get_ready_tasks

\* a variant of SkipTask that looks at the status only
SkipTaskByStatus(t, completed, running) == status[t] \in {"completed", "running"}

\* the skip test of the scan
SkipTask(t, completed, running) ==
    \/ t \in completed
    \/ t \in running
    \/ status[t] \in {"completed", "running"}

\* a variant of DependenciesMet that looks at no dependency
DependenciesIgnored(t, completed) == TRUE

DependenciesMet(t, completed) ==
    \A i \in 1..Len(tasks[t].dependencies) : tasks[t].dependencies[i] \in completed

\* a variant of InsertByPriority that puts a task before those of equal priority
RECURSIVE InsertByPriorityUnstable(_, _)
InsertByPriorityUnstable(sorted, t) ==
    IF sorted = <<>> THEN <<t>>
    ELSE IF tasks[Head(sorted)].priority > tasks[t].priority
         THEN <<Head(sorted)>> \o InsertByPriorityUnstable(Tail(sorted), t)
         ELSE <<t>> \o sorted

\* list.sort(key=priority, reverse=True): stable, descending.
RECURSIVE InsertByPriority(_, _)
InsertByPriority(sorted, t) ==
    IF sorted = <<>> THEN <<t>>
    ELSE IF tasks[Head(sorted)].priority >= tasks[t].priority
         THEN <<Head(sorted)>> \o InsertByPriority(Tail(sorted), t)
         ELSE <<t>> \o sorted

RECURSIVE SortByPriority(_)
SortByPriority(seq) ==
    IF seq = <<>> THEN <<>>
    ELSE InsertByPriority(SortByPriority(SubSeq(seq, 1, Len(seq) - 1)), seq[Len(seq)])

RECURSIVE ScanReady(_, _, _)
ScanReady(i, completed, running) ==
    IF i > Len(tasks) THEN <<>>
    ELSE (IF ~SkipTask(i, completed, running) /\ DependenciesMet(i, completed)
          THEN <<i>> ELSE <<>>) \o ScanReady(i + 1, completed, running)

GetReadyTasks(completed, running) ==
    SortByPriority(ScanReady(1, completed, running))

----
\* _execute_workflow_tasks

\* a variant of AvailableSlots that grants one slot too many
AvailableSlotsOffByOne(running) == max_concurrent_tasks - Cardinality(running) + 1

AvailableSlots(running) == max_concurrent_tasks - Cardinality(running)

TasksToStart(ready, running) == SliceTo(ready, AvailableSlots(running))

\* a variant of LoopGuard that enters the loop once more
LoopGuardInclusive(completed) == Cardinality(completed) <= Len(tasks)

LoopGuard(completed) == Cardinality(completed) < Len(tasks)

\* len(completed_tasks) / len(workflow.tasks) * 100
ProgressOf(completed) == <<100 * Cardinality(completed), Len(tasks)>>

RemainingTasks(completed) == {t \in Ids : t \notin completed}

\* the entries unresolved_deps gets for task t from the d-th entry of
\* task.dependencies on: list order, one pair per entry
RECURSIVE EdgesOf(_, _, _)
EdgesOf(t, d, completed) ==
    IF d > Len(tasks[t].dependencies) THEN <<>>
    ELSE (IF tasks[t].dependencies[d] \notin completed
          THEN << <<t, tasks[t].dependencies[d]>> >> ELSE <<>>)
         \o EdgesOf(t, d + 1, completed)

RECURSIVE UnresolvedDeps(_, _)
UnresolvedDeps(t, completed) ==
    IF t > Len(tasks) THEN <<>>
    ELSE (IF t \notin completed THEN EdgesOf(t, 1, completed) ELSE <<>>)
         \o UnresolvedDeps(t + 1, completed)

\* str(e) of the exception raised on a dead end, and None
UnresolvedError(edges) == [kind |-> "unresolved", edges |-> edges]
NoError == [kind |-> "none", edges |-> <<>>]

\* how a call of execute_workflow ended: not yet, by return, by raising e
NoOutcome == [kind |-> "none", error |-> NoError]
Returned == [kind |-> "returned", error |-> NoError]
Raised(e) == [kind |-> "raised", error |-> e]

\* a variant of DeadEnd that tests "not running_tasks" only
DeadEndIgnoresReady(ready, running) == running = {}

\* the test "if not ready_tasks and not running_tasks"
DeadEnd(ready, running) == ready = <<>> /\ running = {}

----
\* _execute_single_task

\* a variant of ShouldRetry that allows one retry too many
ShouldRetryOffByOne(t) == retry_count[t] <= tasks[t].max_retries

\* a variant of ShouldRetry that always retries
ShouldRetryAlways(t) == TRUE

\* a variant of ShouldRetry that never retries
ShouldRetryNever(t) == FALSE

ShouldRetry(t) == retry_count[t] < tasks[t].max_retries

FailureKinds == {"timeout", "error"}

\* self.agents[task.agent_id] finds the agent
AgentFound(t) == tasks[t].agent_id \in agents

----
\* register_agent, unregister_agent, create_workflow, create_task,
\* add_task_to_workflow

WorkflowIds == 1..MaxWorkflows
BuildTaskIds == 1..MaxAdded

\* the dependency lists handed to create_task
BuildDependencyLists == UNION {[1..n -> BuildTaskIds] : n \in 0..MaxDeps}

\* no task object
NoTask ==
    [task_id |-> 0, agent_id |-> 0, dependencies |-> <<>>, priority |-> 0,
     max_retries |-> 0, status |-> "none", retry_count |-> 0]

\* the WorkflowTask that create_task builds
NewTask(task_id, agent_id, dependencies, priority) ==
    [task_id |-> task_id, agent_id |-> agent_id, dependencies |-> dependencies,
     priority |-> priority, max_retries |-> DefaultMaxRetries,
     status |-> "pending", retry_count |-> 0]

\* self.workflows = {}
NoWorkflows == [w \in WorkflowIds |-> [present |-> FALSE, tasks |-> <<>>]]

Call(op, arg, raised, task) ==
    [op |-> op, arg |-> arg, raised |-> raised, task |-> task]

\* the execution variables of a workflow, as a record
WorkflowState(t, st, rc, res, ws, pr, em, ct, rt, fin, rdy, p, att, dis, rn, out) ==
    [tasks |-> t, status |-> st, retry_count |-> rc, result |-> res,
     wf_status |-> ws, progress |-> pr, error_message |-> em,
     completed_tasks |-> ct, running_tasks |-> rt, finished |-> fin,
     ready_tasks |-> rdy, pc |-> p, attempts |-> att, dispatches |-> dis,
     runs |-> rn, outcome |-> out]

\* a workflow with the task list t that was not executed yet
NewWorkflowState(t) ==
    WorkflowState(t, [i \in 1..Len(t) |-> "pending"], [i \in 1..Len(t) |-> 0],
                  [i \in 1..Len(t) |-> "none"], "idle", <<0, 1>>, NoError,
                  {}, {}, {}, <<>>, "idle", [i \in 1..Len(t) |-> 0],
                  [i \in 1..Len(t) |-> 0], 0, NoOutcome)

\* no second workflow
NoOther == NewWorkflowState(<<>>)

\* no construction call was made yet
NoCall == Call("none", 0, FALSE, NoTask)

\* a sequence without the entries equal to a
RECURSIVE Without(_, _)
Without(seq, a) ==
    IF seq = <<>> THEN <<>>
    ELSE (IF Head(seq) = a THEN <<>> ELSE <<Head(seq)>>) \o Without(Tail(seq), a)

\* self.message_queue = [], and the empty message_history of every agent
NoMessages == <<>>
NoInbox == [a \in AgentIds |-> <<>>]

MsgCall(op, sender, receiver, content, exclude, raised) ==
    [op |-> op, sender |-> sender, receiver |-> receiver, content |-> content,
     exclude |-> exclude, raised |-> raised]

\* self.task_history = []
NoHistory == [success |-> 0, failed |-> 0]

\* self.task_history.append(result), for a TaskResult with the given status
Recorded(history, result_status) ==
    [history EXCEPT ![result_status] = @ + 1]

\* no message call was made yet
NoMsgCall == MsgCall("none", 0, 0, 0, {}, FALSE)

\* a variant of AgentRegistered that accepts every agent id
AgentRegisteredAlways(a) == TRUE

\* the test "agent_id not in self.agents" of create_task, negated
AgentRegistered(a) == a \in agents

\* the test "workflow_id not in self.workflows" of add_task_to_workflow, negated
WorkflowExists(w) == workflows[w].present

\* a variant of AppendTask that puts the task at the front
PrependTask(list, task) == <<task>> \o list

\* workflow.tasks.append(task)
AppendTask(list, task) == Append(list, task)

\* the number of tasks in the workflows 1..w
RECURSIVE TasksAdded(_)
TasksAdded(w) ==
    IF w = 0 THEN 0 ELSE Len(workflows[w].tasks) + TasksAdded(w - 1)

\* TaskCoordinator(): no agent, no workflow
InitBuild ==
    /\ agents = {}
    /\ workflows = NoWorkflows
    /\ last_call = NoCall
    /\ agent_order = <<>>
    /\ message_queue = NoMessages
    /\ inbox = NoInbox
    /\ last_msg_call = NoMsgCall
    /\ other = NoOther
    /\ task_history = NoHistory
    /\ tasks = <<>>
    /\ max_concurrent_tasks = DefaultMaxConcurrent
    /\ status = <<>>
    /\ retry_count = <<>>
    /\ result = <<>>
    /\ wf_status = "idle"
    /\ progress = <<0, 1>>
    /\ error_message = NoError
    /\ completed_tasks = {}
    /\ running_tasks = {}
    /\ finished = {}
    /\ ready_tasks = <<>>
    /\ pc = "idle"
    /\ attempts = <<>>
    /\ dispatches = <<>>
    /\ runs = 0
    /\ outcome = NoOutcome

\* self.agents[agent.agent_id] = agent: the entry of the id is overwritten, and
\* the inbox of the id is from now on the message_history of the object handed
\* over, whatever it holds (empty for an agent just constructed, the current
\* inbox for the object already registered); a key already in self.agents keeps
\* its place in the order of the dict.
RegisterAgent(a, message_history) ==
    /\ agents' = agents \cup {a}
    /\ agent_order' = IF a \in agents THEN agent_order ELSE Append(agent_order, a)
    /\ inbox' = [inbox EXCEPT ![a] = message_history]
    /\ last_call' = Call("register_agent", a, FALSE, NoTask)
    /\ UNCHANGED <<workflows, exec_vars, message_queue, last_msg_call, other,
                   task_history>>

UnregisterAgent(a) ==
    /\ agents' = agents \ {a}
    /\ agent_order' = Without(agent_order, a)
    /\ last_call' = Call("unregister_agent", a, FALSE, NoTask)
    /\ UNCHANGED <<workflows, exec_vars, msg_vars, other, task_history>>

\* a workflow id already present gets a new, empty workflow
CreateWorkflow(w) ==
    /\ workflows' = [workflows EXCEPT ![w] = [present |-> TRUE, tasks |-> <<>>]]
    /\ last_call' = Call("create_workflow", w, FALSE, NoTask)
    /\ UNCHANGED <<agents, agent_order, exec_vars, msg_vars, other, task_history>>

CreateTask(task_id, agent_id, dependencies, priority) ==
    /\ IF AgentRegistered(agent_id)
       THEN last_call' = Call("create_task", agent_id, FALSE,
                              NewTask(task_id, agent_id, dependencies, priority))
       ELSE last_call' = Call("create_task", agent_id, TRUE, NoTask)
    /\ UNCHANGED <<agents, agent_order, workflows, exec_vars, msg_vars, other, task_history>>

\* at most MaxAdded tasks are added in all
AddTaskToWorkflow(w, task) ==
    /\ IF WorkflowExists(w)
       THEN /\ TasksAdded(MaxWorkflows) < MaxAdded
            /\ workflows' = [workflows EXCEPT ![w].tasks = AppendTask(@, task)]
            /\ last_call' = Call("add_task_to_workflow", w, FALSE, task)
       ELSE /\ last_call' = Call("add_task_to_workflow", w, TRUE, task)
            /\ UNCHANGED workflows
    /\ UNCHANGED <<agents, agent_order, exec_vars, msg_vars, other, task_history>>

\* the caller adds the task it holds, the one its latest call gave or took
AddHeldTask(w) ==
    /\ last_call.task # NoTask
    /\ AddTaskToWorkflow(w, last_call.task)

NextBuild ==
    \/ \E a \in AgentIds : RegisterAgent(a, <<>>)
    \/ \E a \in AgentIds : UnregisterAgent(a)
    \/ \E w \in WorkflowIds : CreateWorkflow(w)
    \/ \E task_id \in BuildTaskIds, a \in AgentIds, deps \in BuildDependencyLists :
          CreateTask(task_id, a, deps, DefaultPriority)
    \/ \E w \in WorkflowIds : AddHeldTask(w)

SpecBuild == InitBuild /\ [][NextBuild]_vars

----
\* send_message, broadcast_message

\* who sends and who is named as receiver: the agent ids and 0, the id of no
\* agent (the sender "system" of a broadcast)
SenderIds == 0..MaxAgents

Message(sender, receiver, content, message_type) ==
    [sender |-> sender, receiver |-> receiver, content |-> content,
     message_type |-> message_type]

\* a variant of Deliver that hands the message to every agent's inbox
DeliverToAll(boxes, m) == [a \in AgentIds |-> Append(boxes[a], m)]

\* a variant of Deliver that puts the message at the front of the inbox
DeliverFirst(boxes, m) == [boxes EXCEPT ![m.receiver] = <<m>> \o @]

\* receiver_agent.add_message(message)
Deliver(boxes, m) == [boxes EXCEPT ![m.receiver] = Append(@, m)]

\* a variant of IsRecipient that does not leave out the sender
IsRecipientAlsoSender(a, sender, exclude) == a \notin exclude

\* the test of the loop of broadcast_message
IsRecipient(a, sender, exclude) == a # sender /\ a \notin exclude

\* the agents a broadcast reaches, in the order of self.agents
RECURSIVE Recipients(_, _, _)
Recipients(order, sender, exclude) ==
    IF order = <<>> THEN <<>>
    ELSE (IF IsRecipient(Head(order), sender, exclude) THEN <<Head(order)>> ELSE <<>>)
         \o Recipients(Tail(order), sender, exclude)

\* the inboxes after the messages of a list were delivered one by one
RECURSIVE DeliverAll(_, _)
DeliverAll(boxes, ms) ==
    IF ms = <<>> THEN boxes ELSE DeliverAll(Deliver(boxes, Head(ms)), Tail(ms))

\* at most MaxMessages messages are in message_queue, and in an inbox
SendMessage(sender, receiver, content, message_type) ==
    /\ Len(message_queue) < MaxMessages
    /\ AgentRegistered(receiver) => Len(inbox[receiver]) < MaxMessages
    /\ IF AgentRegistered(receiver)
       THEN LET m == Message(sender, receiver, content, message_type)
            IN /\ message_queue' = Append(message_queue, m)
               /\ inbox' = Deliver(inbox, m)
               /\ last_msg_call' = MsgCall("send_message", sender, receiver,
                                           content, {}, FALSE)
       ELSE /\ last_msg_call' = MsgCall("send_message", sender, receiver,
                                        content, {}, TRUE)
            /\ UNCHANGED <<message_queue, inbox>>
    /\ UNCHANGED <<agents, agent_order, build_vars, exec_vars, other, task_history>>

\* one send_message per recipient, none of which raises
BroadcastMessage(sender, content, message_type, exclude) ==
    LET to == Recipients(agent_order, sender, exclude)
        ms == [i \in 1..Len(to) |-> Message(sender, to[i], content, message_type)]
    IN /\ Len(message_queue) + Len(to) <= MaxMessages
       /\ \A i \in 1..Len(to) : Len(inbox[to[i]]) < MaxMessages
       /\ message_queue' = message_queue \o ms
       /\ inbox' = DeliverAll(inbox, ms)
       /\ last_msg_call' = MsgCall("broadcast_message", sender, 0, content,
                                   exclude, FALSE)
       /\ UNCHANGED <<agents, agent_order, build_vars, exec_vars, other, task_history>>

\* clear_history, called while no coroutine of the coordinator is between two
\* awaits: message_queue and task_history are emptied, the inboxes are kept
ClearHistory ==
    /\ pc \in {"idle", "wait"}
    /\ message_queue' = NoMessages
    /\ task_history' = NoHistory
    /\ UNCHANGED <<agents, agent_order, build_vars, exec_vars, inbox,
                   last_msg_call, other>>

\* BaseAgent.reset of the agent that carries the inbox of id a: its
\* message_history is emptied, message_queue is kept
ResetAgent(a) ==
    /\ pc \in {"idle", "wait"}
    /\ inbox' = [inbox EXCEPT ![a] = <<>>]
    /\ UNCHANGED <<agents, agent_order, build_vars, exec_vars, message_queue,
                   last_msg_call, other, task_history>>

\* reset_system, called while no execute_workflow call is in progress: reset()
\* of every registered agent, self.workflows.clear(), clear_history(); the
\* agents stay registered, and the caller keeps the task it holds
ResetSystem ==
    /\ pc = "idle"
    /\ inbox' = [a \in AgentIds |-> IF a \in agents THEN <<>> ELSE inbox[a]]
    /\ workflows' = NoWorkflows
    /\ message_queue' = NoMessages
    /\ task_history' = NoHistory
    /\ UNCHANGED <<agents, agent_order, last_call, exec_vars, last_msg_call,
                   other>>

\* the orders in which agents of AgentIds can have been registered
AgentOrders ==
    {o \in UNION {[1..n -> AgentIds] : n \in 0..MaxAgents} :
        \A i, j \in 1..Len(o) : i # j => o[i] # o[j]}

\* a coordinator with some agents registered, no workflow, no message
InitMsg ==
    /\ agent_order \in AgentOrders
    /\ agents = Range(agent_order)
    /\ workflows = NoWorkflows
    /\ last_call = NoCall
    /\ message_queue = NoMessages
    /\ inbox = NoInbox
    /\ last_msg_call = NoMsgCall
    /\ other = NoOther
    /\ task_history = NoHistory
    /\ tasks = <<>>
    /\ max_concurrent_tasks = DefaultMaxConcurrent
    /\ status = <<>>
    /\ retry_count = <<>>
    /\ result = <<>>
    /\ wf_status = "idle"
    /\ progress = <<0, 1>>
    /\ error_message = NoError
    /\ completed_tasks = {}
    /\ running_tasks = {}
    /\ finished = {}
    /\ ready_tasks = <<>>
    /\ pc = "idle"
    /\ attempts = <<>>
    /\ dispatches = <<>>
    /\ runs = 0
    /\ outcome = NoOutcome

\* the caller numbers its messages: the content of a call is the number of
\* messages sent before it, plus one
NextMsg ==
    \/ \E sender \in SenderIds, receiver \in SenderIds :
          SendMessage(sender, receiver, Len(message_queue) + 1, "text")
    \/ \E sender \in SenderIds, exclude \in SUBSET AgentIds :
          BroadcastMessage(sender, Len(message_queue) + 1, "broadcast", exclude)

SpecMsg == InitMsg /\ [][NextMsg]_vars

\* the message_history an agent object with the id a can hold when it is
\* registered: up to MaxMessages messages of the sender "system"
AgentHistories(a) ==
    {[i \in 1..n |-> Message(0, a, 1, "text")] : n \in 0..MaxMessages}

\* construction, messages and resets on one coordinator. The tasks created
\* have the id 1, the agent 1 and no dependencies; the messages come from the
\* sender "system" and have the content 1 and the type "text".
NextSystem ==
    \/ \E a \in AgentIds : \E message_history \in AgentHistories(a) :
          RegisterAgent(a, message_history)
    \/ \E a \in AgentIds : UnregisterAgent(a)
    \/ \E w \in WorkflowIds : CreateWorkflow(w)
    \/ CreateTask(1, 1, <<>>, DefaultPriority)
    \/ \E w \in WorkflowIds : AddHeldTask(w)
    \/ \E receiver \in AgentIds : SendMessage(0, receiver, 1, "text")
    \/ BroadcastMessage(0, 1, "text", {})
    \/ ClearHistory
    \/ \E a \in AgentIds : ResetAgent(a)
    \/ ResetSystem

SpecSystem == InitBuild /\ [][NextSystem]_vars

----
\* The state after the workflow was built (create_workflow, create_task,
\* add_task_to_workflow): every task pending, nothing executed.  All tasks of
\* a workflow carry the same max_retries and are assigned to agent 1, which was
\* registered when they were created and may have been unregistered since.
InitFor(taskIds, dependencyLists, priorities) ==
    /\ \E retries \in 0..MaxRetries :
          tasks \in Workflows(taskIds, dependencyLists, priorities, {retries}, {1})
    /\ max_concurrent_tasks \in 0..MaxConcurrent
    /\ status = [t \in Ids |-> "pending"]
    /\ retry_count = [t \in Ids |-> 0]
    /\ result = [t \in Ids |-> "none"]
    /\ wf_status = "idle"
    /\ progress = <<0, 1>>
    /\ error_message = NoError
    /\ completed_tasks = {}
    /\ running_tasks = {}
    /\ finished = {}
    /\ ready_tasks = <<>>
    /\ pc = "idle"
    /\ attempts = [t \in Ids |-> 0]
    /\ dispatches = [t \in Ids |-> 0]
    /\ runs = 0
    /\ agents \in {AgentIds, AgentIds \ {1}}
    /\ outcome = NoOutcome
    /\ workflows = NoWorkflows
    /\ last_call = NoCall
    /\ agent_order = Ascending(agents)
    /\ message_queue = NoMessages
    /\ inbox = NoInbox
    /\ last_msg_call = NoMsgCall
    /\ other = NoOther
    /\ task_history = NoHistory

Init == InitFor(AnyTaskIds, DependencyLists, {DefaultPriority})

\* execute_workflow up to the first loop test of _execute_workflow_tasks
ExecuteWorkflow ==
    /\ pc = "idle"
    /\ runs < MaxRuns
    /\ runs' = runs + 1
    /\ wf_status' = "running"
    /\ completed_tasks' = {}
    /\ running_tasks' = {}
    /\ finished' = {}
    /\ ready_tasks' = <<>>
    /\ dispatches' = [t \in Ids |-> 0]
    /\ pc' = "select"
    /\ outcome' = NoOutcome
    /\ UNCHANGED <<tasks, max_concurrent_tasks, status, retry_count, result,
                   progress, error_message, attempts, agents, build_vars, agent_order, msg_vars, other, task_history>>

\* a variant of WorkflowFails that does not record the error
WorkflowFailsUnrecorded(msg) ==
    /\ wf_status' = "failed"
    /\ outcome' = Raised(msg)
    /\ pc' = "idle"
    /\ UNCHANGED <<progress, error_message>>

\* the body of the except clause of execute_workflow: "raise e" ends the call
WorkflowFails(msg) ==
    /\ wf_status' = "failed"
    /\ error_message' = msg
    /\ outcome' = Raised(msg)
    /\ pc' = "idle"
    /\ UNCHANGED progress

\* the rest of the try block of execute_workflow, and "return workflow"
WorkflowCompletes ==
    /\ wf_status' = "completed"
    /\ progress' = Hundred
    /\ outcome' = Returned
    /\ pc' = "idle"
    /\ UNCHANGED error_message

\* one loop iteration up to asyncio.wait: the ready list, the slots, the dispatch
SelectAndDispatch ==
    /\ pc = "select"
    /\ LoopGuard(completed_tasks)
    /\ LET ready == GetReadyTasks(completed_tasks, running_tasks)
           start == Range(TasksToStart(ready, running_tasks))
       IN /\ ready_tasks' = ready
          /\ status' = [t \in Ids |-> IF t \in start THEN "running" ELSE status[t]]
          /\ running_tasks' = running_tasks \cup start
          /\ attempts' = [t \in Ids |-> IF t \in start THEN 0 ELSE attempts[t]]
          /\ dispatches' = [t \in Ids |-> IF t \in start THEN dispatches[t] + 1
                                                          ELSE dispatches[t]]
          /\ pc' = IF running_tasks \cup start # {} THEN "wait" ELSE "check"
    /\ UNCHANGED <<tasks, max_concurrent_tasks, retry_count, result, wf_status,
                   progress, error_message, completed_tasks, finished, runs, agents, outcome, build_vars, agent_order, msg_vars, other, task_history>>

\* the while test fails: _execute_workflow_tasks returns
LoopExit ==
    /\ pc = "select"
    /\ ~LoopGuard(completed_tasks)
    /\ WorkflowCompletes
    /\ UNCHANGED <<tasks, max_concurrent_tasks, status, retry_count, result,
                   completed_tasks, running_tasks, finished, ready_tasks,
                   attempts, dispatches, runs, agents, build_vars, agent_order, msg_vars, other, task_history>>

\* the agent of task t is not registered: the lookup raises KeyError before the
\* try block, and the execution of t ends with that error
AgentLookupFails(t) ==
    /\ pc = "wait"
    /\ t \in running_tasks \ finished
    /\ ~AgentFound(t)
    /\ finished' = finished \cup {t}
    /\ UNCHANGED <<tasks, max_concurrent_tasks, status, retry_count, result,
                   wf_status, progress, error_message, completed_tasks,
                   running_tasks, ready_tasks, pc, attempts, dispatches, runs,
                   agents, outcome, build_vars, agent_order, msg_vars, other, task_history>>

\* the worker call of task t returns, within the timeout, a TaskResult whose
\* status is "failed" (BaseAgent.execute_task does so when process_task raises)
AttemptReturnsFailed(t) ==
    /\ pc = "wait"
    /\ t \in running_tasks \ finished
    /\ AgentFound(t)
    /\ result' = [result EXCEPT ![t] = "failed"]
    /\ status' = [status EXCEPT ![t] = "completed"]
    /\ attempts' = [attempts EXCEPT ![t] = @ + 1]
    /\ task_history' = Recorded(task_history, "failed")
    /\ finished' = finished \cup {t}
    /\ UNCHANGED <<tasks, max_concurrent_tasks, retry_count, wf_status, progress,
                   error_message, completed_tasks, running_tasks, ready_tasks,
                   pc, dispatches, runs, agents, outcome, build_vars, agent_order,
                   msg_vars, other>>

\* the worker call of task t returns, within the timeout, a successful result
AttemptSucceeds(t) ==
    /\ pc = "wait"
    /\ t \in running_tasks \ finished
    /\ AgentFound(t)
    /\ result' = [result EXCEPT ![t] = "success"]
    /\ status' = [status EXCEPT ![t] = "completed"]
    /\ attempts' = [attempts EXCEPT ![t] = @ + 1]
    /\ task_history' = Recorded(task_history, "success")
    /\ finished' = finished \cup {t}
    /\ UNCHANGED <<tasks, max_concurrent_tasks, retry_count, wf_status, progress,
                   error_message, completed_tasks, running_tasks, ready_tasks,
                   pc, dispatches, runs, agents, outcome, build_vars, agent_order,
                   msg_vars, other>>

\* a variant of AttemptFails in which a retry ends the execution, so that the
\* scheduler takes the task out of running_tasks between two attempts
AttemptFailsReleasing(t, kind) ==
    /\ pc = "wait"
    /\ t \in running_tasks \ finished
    /\ AgentFound(t)
    /\ result' = [result EXCEPT ![t] = kind]
    /\ attempts' = [attempts EXCEPT ![t] = @ + 1]
    /\ finished' = finished \cup {t}
    /\ IF ShouldRetry(t)
       THEN /\ retry_count' = [retry_count EXCEPT ![t] = @ + 1]
            /\ status' = [status EXCEPT ![t] = "pending"]
       ELSE /\ status' = [status EXCEPT ![t] = "failed"]
            /\ UNCHANGED retry_count
    /\ UNCHANGED <<tasks, max_concurrent_tasks, wf_status, progress,
                   error_message, completed_tasks, running_tasks, ready_tasks,
                   pc, dispatches, runs, agents, outcome, build_vars, agent_order, msg_vars, other, task_history>>

\* the worker call of task t times out or raises: the two except clauses
AttemptFails(t, kind) ==
    /\ pc = "wait"
    /\ t \in running_tasks \ finished
    /\ AgentFound(t)
    /\ result' = [result EXCEPT ![t] = kind]
    /\ attempts' = [attempts EXCEPT ![t] = @ + 1]
    /\ IF ShouldRetry(t)
       THEN /\ retry_count' = [retry_count EXCEPT ![t] = @ + 1]
            /\ status' = [status EXCEPT ![t] = "pending"]
            /\ UNCHANGED finished
       ELSE /\ status' = [status EXCEPT ![t] = "failed"]
            /\ finished' = finished \cup {t}
            /\ UNCHANGED retry_count
    /\ UNCHANGED <<tasks, max_concurrent_tasks, wf_status, progress,
                   error_message, completed_tasks, running_tasks, ready_tasks,
                   pc, dispatches, runs, agents, outcome, build_vars, agent_order, msg_vars, other, task_history>>

\* the finished executions that the loop over done moves: "if task_id:"
Moved(done) == {t \in done : Truthy(tasks[t].task_id)}

\* asyncio.wait returns: the loop over done. A finished execution whose task_id
\* is falsy stays in running_tasks, done, and progress is written only when an
\* execution is moved.
ProcessDone ==
    /\ pc = "wait"
    /\ finished # {}
    /\ running_tasks' = running_tasks \ Moved(finished)
    /\ completed_tasks' = completed_tasks \cup Moved(finished)
    /\ progress' = IF Moved(finished) = {} THEN progress
                   ELSE ProgressOf(completed_tasks \cup Moved(finished))
    /\ finished' = finished \ Moved(finished)
    /\ pc' = "check"
    /\ UNCHANGED <<tasks, max_concurrent_tasks, status, retry_count, result,
                   wf_status, error_message, ready_tasks, attempts, dispatches, runs, agents, outcome, build_vars, agent_order, msg_vars, other, task_history>>

\* the dead-end test closing the loop body: raise
RaiseUnresolved ==
    /\ pc = "check"
    /\ DeadEnd(ready_tasks, running_tasks)
    /\ RemainingTasks(completed_tasks) # {}
    /\ WorkflowFails(UnresolvedError(UnresolvedDeps(1, completed_tasks)))
    /\ UNCHANGED <<tasks, max_concurrent_tasks, status, retry_count, result,
                   completed_tasks, running_tasks, finished, ready_tasks,
                   attempts, dispatches, runs, agents, build_vars, agent_order, msg_vars, other, task_history>>

\* the dead-end test closing the loop body: break
BreakLoop ==
    /\ pc = "check"
    /\ DeadEnd(ready_tasks, running_tasks)
    /\ RemainingTasks(completed_tasks) = {}
    /\ WorkflowCompletes
    /\ UNCHANGED <<tasks, max_concurrent_tasks, status, retry_count, result,
                   completed_tasks, running_tasks, finished, ready_tasks,
                   attempts, dispatches, runs, agents, build_vars, agent_order, msg_vars, other, task_history>>

\* the dead-end test closing the loop body: next iteration
NextIteration ==
    /\ pc = "check"
    /\ ~DeadEnd(ready_tasks, running_tasks)
    /\ pc' = "select"
    /\ UNCHANGED <<tasks, max_concurrent_tasks, status, retry_count, result,
                   wf_status, progress, error_message, completed_tasks,
                   running_tasks, finished, ready_tasks, attempts, dispatches, runs, agents, outcome, build_vars, agent_order, msg_vars, other, task_history>>

Scheduler ==
    \/ SelectAndDispatch
    \/ LoopExit
    \/ ProcessDone
    \/ RaiseUnresolved
    \/ BreakLoop
    \/ NextIteration

AttemptEnds(t) ==
    \/ AgentLookupFails(t)
    \/ AttemptSucceeds(t)
    \/ AttemptReturnsFailed(t)
    \/ \E kind \in FailureKinds : AttemptFails(t, kind)

Worker == \E t \in TaskIds : AttemptEnds(t)

Next ==
    \/ ExecuteWorkflow
    \/ Scheduler
    \/ Worker

Spec == Init /\ [][Next]_vars

\* the same coordinator on workflows whose tasks carry priorities 1..MaxPriority
InitPriority == InitFor(NonEmptyTaskIds, DependencyLists, 1..MaxPriority)

SpecPriority == InitPriority /\ [][Next]_vars

\* the same coordinator on workflows whose dependency lists have any order
\* and may repeat an id
InitDeps == InitFor(NonEmptyTaskIds, AllDependencyLists, {DefaultPriority})

SpecDeps == InitDeps /\ [][Next]_vars

\* the same coordinator on workflows of up to MaxShared tasks, under the
\* scheduling of FairSpec
InitShort ==
    /\ InitFor(AnyTaskIds, DependencyLists, {DefaultPriority})
    /\ Len(tasks) <= MaxShared

FairSpecShort ==
    /\ InitShort /\ [][Next]_vars
    /\ WF_vars(Scheduler)
    /\ \A t \in TaskIds : WF_vars(AttemptEnds(t))

\* the same coordinator on workflows of up to MaxShared tasks, with calls of
\* clear_history between the steps of the runs
InitHistory ==
    /\ InitFor(AnyTaskIds, DependencyLists, {DefaultPriority})
    /\ Len(tasks) <= MaxShared

NextHistory ==
    \/ Next
    \/ ClearHistory

SpecHistory == InitHistory /\ [][NextHistory]_vars

\* The scheduler coroutine runs whenever it can, and asyncio.wait_for ends every
\* worker call (by its timeout at the latest); nobody has to call
\* execute_workflow.
FairSpec ==
    /\ Spec
    /\ WF_vars(Scheduler)
    /\ \A t \in TaskIds : WF_vars(AttemptEnds(t))

----
\* two execute_workflow calls of one coordinator, on different workflows, that
\* overlap (asyncio.gather, or two tasks of the event loop)

\* the variables of the workflow whose call the variables show
Current ==
    WorkflowState(tasks, status, retry_count, result, wf_status, progress,
                  error_message, completed_tasks, running_tasks, finished,
                  ready_tasks, pc, attempts, dispatches, runs, outcome)

\* The event loop turns to the call on the other workflow. A call gives up
\* control only at "await asyncio.wait" or by ending, and the attempts of a
\* workflow end only while every call is suspended; max_concurrent_tasks and
\* the agents belong to the coordinator, completed_tasks and running_tasks to
\* the call.
Switch ==
    /\ pc \in {"idle", "wait"}
    /\ other.tasks # <<>>
    /\ other' = Current
    /\ tasks' = other.tasks
    /\ status' = other.status
    /\ retry_count' = other.retry_count
    /\ result' = other.result
    /\ wf_status' = other.wf_status
    /\ progress' = other.progress
    /\ error_message' = other.error_message
    /\ completed_tasks' = other.completed_tasks
    /\ running_tasks' = other.running_tasks
    /\ finished' = other.finished
    /\ ready_tasks' = other.ready_tasks
    /\ pc' = other.pc
    /\ attempts' = other.attempts
    /\ dispatches' = other.dispatches
    /\ runs' = other.runs
    /\ outcome' = other.outcome
    /\ UNCHANGED <<max_concurrent_tasks, agents, build_vars, agent_order, msg_vars,
                   task_history>>

\* the task lists of the two workflows: up to MaxShared tasks each, with
\* dependencies among the ids 1..MaxShared
SharedWorkflows(retries) ==
    {w \in Workflows(NonEmptyTaskIds, DependencyLists, {DefaultPriority}, {retries}, {1}) :
        /\ Len(w) \in 1..MaxShared
        /\ \A i \in 1..Len(w) : Range(w[i].dependencies) \subseteq 1..MaxShared}

\* a coordinator with two workflows, none of them executed yet; the tasks of
\* the second have no dependencies and no retries
InitTwo ==
    /\ \E retries \in 0..MaxRetries : tasks \in SharedWorkflows(retries)
    /\ \E w \in SharedWorkflows(0) :
          /\ \A i \in 1..Len(w) : w[i].dependencies = <<>>
          /\ other = NewWorkflowState(w)
    /\ max_concurrent_tasks \in 0..MaxConcurrent
    /\ status = [t \in Ids |-> "pending"]
    /\ retry_count = [t \in Ids |-> 0]
    /\ result = [t \in Ids |-> "none"]
    /\ wf_status = "idle"
    /\ progress = <<0, 1>>
    /\ error_message = NoError
    /\ completed_tasks = {}
    /\ running_tasks = {}
    /\ finished = {}
    /\ ready_tasks = <<>>
    /\ pc = "idle"
    /\ attempts = [t \in Ids |-> 0]
    /\ dispatches = [t \in Ids |-> 0]
    /\ runs = 0
    /\ agents \in {AgentIds, AgentIds \ {1}}
    /\ outcome = NoOutcome
    /\ workflows = NoWorkflows
    /\ last_call = NoCall
    /\ agent_order = Ascending(agents)
    /\ message_queue = NoMessages
    /\ inbox = NoInbox
    /\ last_msg_call = NoMsgCall
    /\ task_history = NoHistory

NextTwo ==
    \/ Next
    \/ Switch

SpecTwo == InitTwo /\ [][NextTwo]_vars

----
\* Properties

\* the ids named in the dependency list of t
Deps(t) == Range(tasks[t].dependencies)

\* the tasks reachable from a set of ids along dependencies, in at most k steps
RECURSIVE DepClosure(_, _)
DepClosure(S, k) ==
    IF k = 0 THEN S
    ELSE DepClosure(S \cup UNION {Deps(u) : u \in S \cap Ids}, k - 1)

Acyclic == \A t \in Ids : t \notin DepClosure(Deps(t), MaxTasks)

DepsInWorkflow == \A t \in Ids : Deps(t) \subseteq Ids

\* t depends on itself, or t and another task depend on each other
OnCycle(t) ==
    \/ t \in Deps(t)
    \/ \E u \in Ids : u # t /\ u \in Deps(t) /\ t \in Deps(u)

\* no worker call has failed so far
AllAttemptsSucceeded ==
    \A t \in Ids : retry_count[t] = 0 /\ result[t] \in {"none", "success"}

\* the run has ended (execute_workflow returned or raised)
RunEnded == runs >= 1 /\ pc = "idle"

\* t was dispatched in this run and its execution ended failed, retries exhausted
FailedInRun(t) ==
    t \in completed_tasks \cup finished /\ status[t] = "failed"

\* C1: a task is dispatched only when every id in its dependencies names a
\* task whose status is completed (so never after a dependency ended failed).
DependencyOrdering ==
    \A t \in Ids :
        dispatches[t] > 0 =>
            \A d \in Deps(t) : d \in Ids /\ status[d] = "completed"

\* C2: with max_concurrent_tasks >= 1, the number of in-flight executions
\* never exceeds max_concurrent_tasks.
ConcurrencyBound ==
    max_concurrent_tasks >= 1 =>
        Cardinality(running_tasks) <= max_concurrent_tasks

\* C2 witness: every slot is taken while a ready task is left waiting.
ConcurrencySaturated ==
    /\ pc = "wait"
    /\ max_concurrent_tasks >= 1
    /\ Cardinality(running_tasks) = max_concurrent_tasks
    /\ \E t \in Range(ready_tasks) : t \notin running_tasks

\* C3: a first run of an acyclic workflow whose dependencies all name tasks of
\* the workflow and whose attempts all succeed ends completed, every task
\* completed (max_concurrent_tasks >= 1).
SuccessfulRunCompletes ==
    (/\ RunEnded /\ runs = 1
     /\ max_concurrent_tasks >= 1
     /\ Acyclic /\ DepsInWorkflow
     /\ AllAttemptsSucceeded)
    => (wf_status = "completed" /\ \A t \in Ids : status[t] = "completed")

\* C4: when the unresolved-dependency error is about to be raised, no task is
\* in flight, uncompleted tasks remain, and the ready set recomputed at that
\* moment is empty.
RaiseOnlyAtDeadEnd ==
    (/\ pc = "check"
     /\ DeadEnd(ready_tasks, running_tasks)
     /\ RemainingTasks(completed_tasks) # {})
    => (/\ running_tasks = {}
        /\ RemainingTasks(completed_tasks) # {}
        /\ GetReadyTasks(completed_tasks, running_tasks) = <<>>)

\* C5: a run of a workflow with a task on a cycle (max_concurrent_tasks >= 1)
\* eventually ends failed with the unresolved-dependency error, and the tasks
\* on the cycle are never dispatched.
DeadlockDetection ==
    /\ (/\ wf_status = "running"
        /\ max_concurrent_tasks >= 1
        /\ \E t \in Ids : OnCycle(t))
       ~> (wf_status = "failed" /\ error_message.kind = "unresolved")
    /\ [](\A t \in TaskIds : (t \in Ids /\ OnCycle(t)) => dispatches[t] = 0)

\* C6: in a first run (retry_count 0 at dispatch) a dispatched task makes at
\* most max_retries + 1 attempts; while all its attempts have failed it has made
\* retry_count attempts, and it is failed exactly after max_retries + 1 failed
\* attempts, with retry_count = max_retries and the last failure recorded.
RetryBound ==
    \A t \in Ids :
        (runs = 1 /\ dispatches[t] > 0) =>
            /\ attempts[t] <= tasks[t].max_retries + 1
            /\ status[t] = "pending" =>
                   /\ attempts[t] = retry_count[t]
                   /\ result[t] \in FailureKinds
            /\ status[t] = "failed" =>
                   /\ attempts[t] = tasks[t].max_retries + 1
                   /\ retry_count[t] = tasks[t].max_retries
                   /\ result[t] \in FailureKinds

\* C6 witness: a task with a retry budget has used it up and is failed.
RetryExhausted ==
    \E t \in Ids :
        /\ runs = 1
        /\ tasks[t].max_retries >= 1
        /\ status[t] = "failed"
        /\ attempts[t] = tasks[t].max_retries + 1

\* C7: when a run has ended and a task dispatched in it ended failed, the
\* workflow is failed and its error_message is that task's error.
FailureEscalation ==
    (RunEnded /\ \E t \in Ids : FailedInRun(t))
    => (/\ wf_status = "failed"
        /\ \E t \in Ids : FailedInRun(t) /\ error_message.kind = result[t])

\* C8: once a task has ended failed in a run, no task is dispatched in the
\* rest of that run.
AbortOnFailure ==
    [][(wf_status = "running" /\ \E t \in Ids : FailedInRun(t))
         => \A u \in Ids : dispatches'[u] <= dispatches[u]]_vars

\* C9: when workflow.status is completed, every task's status is completed.
CompletedImpliesAllCompleted ==
    wf_status = "completed" => \A t \in Ids : status[t] = "completed"

\* C10: during a run, workflow.progress never decreases from one state to
\* the next.
ProgressMonotone ==
    [][wf_status = "running" => FracLeq(progress, progress')]_vars

\* C11: when a call of execute_workflow has ended, workflow.progress is 100
\* exactly if workflow.status is completed.
ProgressHundredIffCompleted ==
    RunEnded => (FracEq(progress, Hundred) <=> wf_status = "completed")

\* C12: workflow.status changes only from idle to running, from running to
\* completed and from running to failed.
WorkflowLifecycle ==
    [][wf_status' # wf_status =>
         <<wf_status, wf_status'>> \in {<<"idle", "running">>,
                                        <<"running", "completed">>,
                                        <<"running", "failed">>}]_vars

\* C13: a task's status changes only from pending to running, from running to
\* completed or failed, and from failed to pending when retry_count <
\* max_retries held at the failure (one step from running to pending, the
\* failure and the reset lying between the same two awaits).
TaskStatusTransitions ==
    [][\A t \in Ids :
         status'[t] # status[t] =>
            \/ <<status[t], status'[t]>> \in {<<"pending", "running">>,
                                              <<"running", "completed">>,
                                              <<"running", "failed">>}
            \/ <<status[t], status'[t]>> = <<"running", "pending">> /\ ShouldRetry(t)]_vars

\* C15: when a call of execute_workflow has ended, it returned exactly if the
\* workflow is completed and raised exactly if the workflow is failed, and
\* workflow.error_message is then the raised error.
OutcomeAgreement ==
    RunEnded =>
        /\ outcome.kind \in {"returned", "raised"}
        /\ outcome.kind = "returned" <=> wf_status = "completed"
        /\ outcome.kind = "raised" <=> wf_status = "failed"
        /\ outcome.kind = "raised" => error_message = outcome.error

\* C15 witness: a call has raised an error naming an unresolved dependency.
OutcomeRaised ==
    /\ RunEnded
    /\ outcome.kind = "raised"
    /\ outcome.error.edges # <<>>
    /\ wf_status = "failed"

\* C16: a task whose latest attempt ended with a failed result returned by the
\* worker, or with an error raised by it, is not completed.
WorkerFailureFailsTask ==
    \A t \in Ids : result[t] \in {"failed", "error"} => status[t] # "completed"

\* C17: when a run has ended in which a task was dispatched whose agent is
\* not registered, the workflow is failed and no such task is left running.
UnresolvableWorkerFails ==
    (RunEnded /\ \E t \in Ids : dispatches[t] > 0 /\ ~AgentFound(t))
    => (/\ wf_status = "failed"
        /\ \A t \in Ids : ~AgentFound(t) => status[t] # "running")

\* C14: at every selection step the ready list holds the ready tasks by
\* descending priority, equal priorities in insertion order, and the tasks
\* dispatched are its first k entries, k = min(|ready|, max_concurrent_tasks -
\* |running|); no ready task left waiting has a higher priority than one dispatched.
PrioritySelection ==
    [][(pc = "select" /\ pc' \in {"wait", "check"}) =>
         LET ready == ready_tasks'
             started == {t \in Ids : dispatches'[t] > dispatches[t]}
             k == Min(Len(ready), max_concurrent_tasks - Cardinality(running_tasks))
         IN /\ Range(ready) = {t \in Ids : /\ ~SkipTask(t, completed_tasks, running_tasks)
                                            /\ DependenciesMet(t, completed_tasks)}
            /\ \A i, j \in 1..Len(ready) :
                   i < j => \/ tasks[ready[i]].priority > tasks[ready[j]].priority
                            \/ /\ tasks[ready[i]].priority = tasks[ready[j]].priority
                               /\ ready[i] < ready[j]
            /\ started = {ready[i] : i \in 1..k}
            /\ \A u \in Range(ready) \ started, t \in started :
                   tasks[u].priority <= tasks[t].priority]_vars

\* C14 witness: with one slot, a task of higher priority added later is in
\* flight while a ready task added before it has not been dispatched.
PriorityOvertakes ==
    /\ pc = "wait"
    /\ max_concurrent_tasks = 1
    /\ \E a, b \in Ids :
          /\ a < b
          /\ tasks[b].priority > tasks[a].priority
          /\ tasks[a].dependencies = <<>> /\ tasks[b].dependencies = <<>>
          /\ running_tasks = {b}
          /\ a \in Range(ready_tasks)
          /\ dispatches[a] = 0 /\ dispatches[b] = 1
          /\ runs = 1

\* C18: create_task raises exactly if its agent_id is not registered; a call
\* that raises gives no task; no call changes a workflow, the agents or the
\* execution state; a call that returns gives a task of that agent with status
\* pending and retry_count 0.
CreateTaskContract ==
    [][last_call'.op = "create_task" =>
         /\ last_call'.raised <=> last_call'.arg \notin agents
         /\ last_call'.raised => last_call'.task = NoTask
         /\ UNCHANGED <<workflows, agents, agent_order, exec_vars, msg_vars, other, task_history>>
         /\ ~last_call'.raised =>
               /\ last_call'.task.agent_id = last_call'.arg
               /\ last_call'.task.status = "pending"
               /\ last_call'.task.retry_count = 0]_vars

\* C18 witness: create_task has raised for an agent that was unregistered,
\* while another agent is registered and a workflow holds a task.
CreateTaskRejected ==
    /\ last_call.op = "create_task"
    /\ last_call.raised
    /\ agents # {}
    /\ \E w \in WorkflowIds : workflows[w].tasks # <<>>

\* C19: add_task_to_workflow raises exactly if the workflow id is absent and
\* then changes no task list; otherwise it puts the task at the end of that
\* workflow's list and changes no other workflow.
AddTaskContract ==
    [][last_call'.op = "add_task_to_workflow" =>
         LET w == last_call'.arg
         IN /\ last_call'.raised <=> ~workflows[w].present
            /\ last_call'.raised => workflows' = workflows
            /\ ~last_call'.raised =>
                  /\ workflows'[w].present
                  /\ workflows'[w].tasks = workflows[w].tasks \o <<last_call'.task>>
                  /\ \A v \in WorkflowIds \ {w} : workflows'[v] = workflows[v]]_vars

\* C19 witness: a task was put behind a different task of a workflow.
TaskAppended ==
    /\ last_call.op = "add_task_to_workflow"
    /\ ~last_call.raised
    /\ Len(workflows[last_call.arg].tasks) = 2
    /\ workflows[last_call.arg].tasks[2] = last_call.task
    /\ workflows[last_call.arg].tasks[1] # last_call.task
    /\ \E v \in WorkflowIds \ {last_call.arg} : workflows[v].present

\* C20: no execution starts on a workflow with a task whose dependencies name
\* an id that is not the id of a task of the workflow.
UnknownDependencyRejected ==
    wf_status # "idle" => DepsInWorkflow

\* the messages of a log addressed to agent a, in the order of the log
ReceivedBy(log, a) == SelectSeq(log, LAMBDA m : m.receiver = a)

\* a step made by a call of broadcast_message
BroadcastStep == last_msg_call'.op = "broadcast_message"

\* a step made by a call of send_message
SendStep == last_msg_call'.op = "send_message"

\* C21: a broadcast puts exactly one message, the broadcast one, at the end
\* of the inbox of every registered agent that is neither the sender nor
\* excluded, changes no other inbox, and makes the message log longer by
\* the number of those agents.
BroadcastRecipients ==
    [][BroadcastStep =>
         LET c == last_msg_call'
             R == {a \in agents : a # c.sender /\ a \notin c.exclude}
         IN /\ ~c.raised
            /\ \A a \in R :
                  inbox'[a] = Append(inbox[a],
                                     Message(c.sender, a, c.content, "broadcast"))
            /\ \A a \in AgentIds \ R : inbox'[a] = inbox[a]
            /\ Len(message_queue') = Len(message_queue) + Cardinality(R)
            /\ SubSeq(message_queue', 1, Len(message_queue)) = message_queue]_vars

\* C21 witness: a registered agent broadcast to the other registered agent
\* after it had received a message itself; the other agent has the
\* broadcast at the end of its inbox and the sender has not.
BroadcastSkipsSender ==
    /\ last_msg_call.op = "broadcast_message"
    /\ last_msg_call.sender \in agents
    /\ \E a \in agents \ (last_msg_call.exclude \cup {last_msg_call.sender}) :
          /\ inbox[a] # <<>>
          /\ inbox[a][Len(inbox[a])].content = last_msg_call.content
          /\ inbox[a][Len(inbox[a])].message_type = "broadcast"
    /\ inbox[last_msg_call.sender] # <<>>
    /\ \A i \in 1..Len(inbox[last_msg_call.sender]) :
          inbox[last_msg_call.sender][i].content # last_msg_call.content

\* C22: send_message raises exactly if the receiver is not registered and
\* then changes neither the message log nor an inbox; otherwise it puts one
\* message at the end of the log and the same message at the end of the
\* receiver's inbox, and changes no other inbox.
SendMessageContract ==
    [][SendStep =>
         LET c == last_msg_call'
         IN /\ c.raised <=> c.receiver \notin agents
            /\ c.raised => message_queue' = message_queue /\ inbox' = inbox
            /\ ~c.raised =>
                  LET m == Message(c.sender, c.receiver, c.content, "text")
                  IN /\ message_queue' = Append(message_queue, m)
                     /\ inbox'[c.receiver] = Append(inbox[c.receiver], m)
                     /\ \A a \in AgentIds \ {c.receiver} :
                           inbox'[a] = inbox[a]]_vars

\* C22 witness: with two agents registered, a message was sent to one of
\* them after other messages, and is the last of the log and of its inbox,
\* while the other agent holds an earlier message.
MessageSent ==
    /\ last_msg_call.op = "send_message"
    /\ ~last_msg_call.raised
    /\ agents = AgentIds
    /\ Len(message_queue) >= 2
    /\ message_queue[Len(message_queue)].content = last_msg_call.content
    /\ inbox[last_msg_call.receiver][Len(inbox[last_msg_call.receiver])]
          = message_queue[Len(message_queue)]
    /\ \E a \in agents \ {last_msg_call.receiver} : inbox[a] # <<>>

\* C23: the inbox of every agent is the list of the messages of the log
\* addressed to it, in the order of the log.
FifoPerReceiver ==
    \A a \in AgentIds : inbox[a] = ReceivedBy(message_queue, a)

\* C23 witness: an agent received two messages, one of them broadcast, and
\* between the two the log has a message for another agent.
InterleavedInbox ==
    \E i, j, k \in 1..Len(message_queue) :
       /\ i < j /\ j < k
       /\ message_queue[i].receiver = message_queue[k].receiver
       /\ message_queue[j].receiver # message_queue[i].receiver
       /\ Len(inbox[message_queue[i].receiver]) = 2
       /\ \E n \in {i, k} : message_queue[n].message_type = "broadcast"

\* C24: with max_concurrent_tasks >= 1, and every attempt ending at some
\* time, a running workflow ends completed or failed: no run stays running
\* for ever, so at any time either execute_workflow was never called or a
\* later state has the call ended with the workflow completed or failed.
Termination ==
    []<>(max_concurrent_tasks >= 1 =>
            \/ runs = 0
            \/ wf_status \in {"completed", "failed"} /\ pc = "idle")

\* the execution of d in this run was started and has ended for good
ExecutionEnded(d) ==
    /\ d \in Ids
    /\ dispatches[d] >= 1
    /\ d \notin running_tasks \ finished
    /\ status[d] # "pending"

\* C25: when a task is dispatched, every task named in its dependencies was
\* dispatched in this run and its execution, retries included, has ended; none
\* is pending or in flight, before or after the dispatch.
NoStartBeforeDependenciesEnd ==
    [][\A t \in Ids :
          dispatches'[t] > dispatches[t] =>
             \A d \in Deps(t) :
                /\ ExecutionEnded(d)
                /\ d \notin running_tasks']_vars

\* C25 witness: in a first run a task is in flight whose dependency was
\* retried before it completed, while a third task is still in flight.
DependentStartedAfterRetry ==
    /\ runs = 1
    /\ \E t \in Ids : \E d \in Deps(t) :
          /\ d # t
          /\ t \in running_tasks \ finished
          /\ dispatches[t] = 1
          /\ retry_count[d] >= 1
          /\ status[d] = "completed"
          /\ \E u \in Ids \ {t, d} : u \in running_tasks \ finished

\* C26: a task whose execution has not ended stays in running_tasks; a retry
\* leaves the task in running_tasks with its execution going on; and a
\* dispatch never makes running_tasks, the retrying tasks included, larger
\* than max_concurrent_tasks.
RetryHoldsSlot ==
    [][\A t \in Ids :
          /\ t \in running_tasks \ finished => t \in running_tasks'
          /\ retry_count'[t] > retry_count[t] =>
                /\ t \in running_tasks \ finished
                /\ t \in running_tasks' \ finished'
          /\ (dispatches'[t] > dispatches[t] /\ max_concurrent_tasks >= 1) =>
                Cardinality(running_tasks') <= max_concurrent_tasks]_vars

\* C26 witness: with one slot, a task is between two attempts (retried, not
\* ended) and holds the slot, while another task with no dependency waits
\* undispatched.
SlotHeldDuringRetry ==
    /\ max_concurrent_tasks = 1
    /\ pc = "wait"
    /\ runs = 1
    /\ \E t \in Ids :
          /\ running_tasks = {t}
          /\ t \notin finished
          /\ retry_count[t] >= 1
          /\ status[t] = "pending"
          /\ \E u \in Ids \ {t} :
                /\ tasks[u].dependencies = <<>>
                /\ dispatches[u] = 0
                /\ status[u] = "pending"

\* an attempt of t ends in this step because its worker call timed out
TimeoutStep(t) == attempts'[t] = attempts[t] + 1 /\ result'[t] = "timeout"

\* C27: an attempt that times out records the timeout as a failed result and
\* does not complete the task; with retry_count < max_retries it adds one to
\* retry_count and the execution goes on, otherwise it leaves the task
\* failed, retry_count unchanged, and the execution ends with the error.
TimeoutIsFailure ==
    [][\A t \in Ids :
          TimeoutStep(t) =>
             /\ status'[t] # "completed"
             /\ t \notin completed_tasks'
             /\ IF retry_count[t] < tasks[t].max_retries
                THEN /\ retry_count'[t] = retry_count[t] + 1
                     /\ t \in running_tasks' \ finished'
                ELSE /\ retry_count'[t] = retry_count[t]
                     /\ status'[t] = "failed"
                     /\ t \in finished']_vars

\* C27 witness: in a first run a task timed out on its first attempt, was
\* retried, timed out again and was left failed with its retries used up.
TimedOutTwice ==
    /\ runs = 1
    /\ \E t \in Ids :
          /\ tasks[t].max_retries >= 1
          /\ retry_count[t] = tasks[t].max_retries
          /\ attempts[t] = tasks[t].max_retries + 1
          /\ result[t] = "timeout"
          /\ status[t] = "failed"
          /\ t \in finished

\* the executions of the two workflows that are dispatched and have not ended
InFlight ==
    Cardinality(running_tasks \ finished)
       + Cardinality(other.running_tasks \ other.finished)

\* C28: with max_concurrent_tasks >= 1, the executions in flight of two
\* workflows executed at the same time by one coordinator are together never
\* more than max_concurrent_tasks.
SharedConcurrencyLimit ==
    max_concurrent_tasks >= 1 => InFlight <= max_concurrent_tasks

\* a call of execute_workflow has just ended by raising the
\* unresolved-dependency error
UnresolvedRaised ==
    /\ pc = "idle"
    /\ outcome.kind = "raised"
    /\ outcome.error.kind = "unresolved"

\* the pairs <<t, d>> for every entry d of the dependency lists of the tasks
\* from t on, by task and then by position in the list
RECURSIVE AllPairs(_)
AllPairs(t) ==
    IF t > Len(tasks) THEN <<>>
    ELSE [i \in 1..Len(tasks[t].dependencies) |-> <<t, tasks[t].dependencies[i]>>]
         \o AllPairs(t + 1)

\* C29: the edge list of a raised unresolved-dependency error is not empty
\* and lists, by task and then in the order of the task's dependency list,
\* one pair <<t, d>> for every entry d of the list of a task t with neither t
\* nor d completed in the run.
UnresolvedEdgeReport ==
    UnresolvedRaised =>
       /\ outcome.error.edges # <<>>
       /\ outcome.error.edges
             = SelectSeq(AllPairs(1),
                         LAMBDA p : p[1] \notin completed_tasks
                                    /\ p[2] \notin completed_tasks)

\* the tasks of the workflow whose status is completed or failed after the step
TerminalAfter == {t \in Ids : status'[t] \in {"completed", "failed"}}

\* C30: when a batch of finished executions has been processed,
\* progress * |tasks| = 100 * (number of tasks with status completed or failed).
ProgressFormula ==
    [][(pc = "wait" /\ pc' = "check") =>
          progress'[1] * Len(tasks) = 100 * Cardinality(TerminalAfter) * progress'[2]]_vars

\* get_system_status()["tasks"]["total_executed"]
TotalExecuted == task_history.success + task_history.failed

\* the tasks of the shown workflow with status completed or failed
TerminalTasks == {t \in Ids : status[t] \in {"completed", "failed"}}

\* C31: task_history has one entry for every task with status completed or
\* failed, and as many "success" entries as tasks whose worker call
\* succeeded, so that success_rate is their share of the terminal tasks.
ExecutedTaskAccounting ==
    /\ TotalExecuted = Cardinality(TerminalTasks)
    /\ task_history.success
          = Cardinality({t \in TerminalTasks : result[t] = "success"})

\* C32: on a workflow without tasks the step that follows the start of
\* execute_workflow ends the call: status completed, progress 100, a normal
\* return, nothing dispatched and nothing recorded.
EmptyWorkflow ==
    [][(Len(tasks) = 0 /\ pc = "select") =>
          /\ pc' = "idle"
          /\ wf_status' = "completed"
          /\ FracEq(progress', Hundred)
          /\ outcome' = Returned
          /\ running_tasks' = {}
          /\ task_history' = task_history]_vars

\* C32 witness: a call of execute_workflow on a workflow without tasks has
\* returned, the workflow completed with progress 100.
EmptyWorkflowCompleted ==
    /\ Len(tasks) = 0
    /\ RunEnded
    /\ wf_status = "completed"
    /\ FracEq(progress, Hundred)
    /\ outcome = Returned

\* C33: in a first run, a task has an execution in flight exactly if its
\* status is running.
RunningSetMatchesStatus ==
    runs = 1 =>
       \A t \in Ids : t \in running_tasks \ finished <=> status[t] = "running"

\* C34: in a run every task is dispatched at most once, and a dispatched task
\* whose status is pending (a retry) or failed is held in running_tasks or
\* completed_tasks, where the scan for ready tasks skips it.
AtMostOneDispatch ==
    \A t \in Ids :
       /\ dispatches[t] <= 1
       /\ (dispatches[t] = 1 /\ pc # "idle") =>
             t \in running_tasks \cup completed_tasks

\* C34 witness: a task is between two attempts, its status pending, in the
\* one execution launched for it, after the scheduler has processed the end
\* of another task's execution.
RetryInsideOneExecution ==
    /\ pc = "wait"
    /\ \E t \in Ids :
          /\ dispatches[t] = 1
          /\ status[t] = "pending"
          /\ retry_count[t] >= 1
          /\ attempts[t] >= 1
          /\ t \in running_tasks \ finished
    /\ completed_tasks # {}

\* an attempt of t fails in this step and the execution goes on with a retry
RetriedStep(t) ==
    /\ attempts'[t] = attempts[t] + 1
    /\ result'[t] \in FailureKinds
    /\ t \notin finished'

\* C35: retry_count stays within 0..max_retries; no step makes it smaller,
\* none resets it when execute_workflow is called again, and it grows, by
\* exactly one, exactly in the steps in which a failed attempt is retried.
RetryCounterBounds ==
    /\ [](\A t \in Ids : retry_count[t] \in 0..tasks[t].max_retries)
    /\ [][\A t \in Ids :
             /\ retry_count'[t] >= retry_count[t]
             /\ RetriedStep(t) <=> retry_count'[t] = retry_count[t] + 1
             /\ ~RetriedStep(t) => retry_count'[t] = retry_count[t]]_vars

\* C35 witness: in a second run a task that had used up its retries in the
\* first was dispatched again with its retry_count kept, and failed on the
\* first attempt without a retry.
RetryCountKept ==
    /\ runs = 2
    /\ \E t \in Ids :
          /\ tasks[t].max_retries >= 1
          /\ retry_count[t] = tasks[t].max_retries
          /\ dispatches[t] = 1
          /\ attempts[t] = 1
          /\ status[t] = "failed"
          /\ t \in finished

\* a second call of execute_workflow is under way on a workflow with tasks
\* whose first call ended completed (a failed call would have left its error
\* in error_message)
RerunOfCompleted ==
    /\ runs = 2
    /\ wf_status = "running"
    /\ error_message = NoError
    /\ Len(tasks) >= 1

\* C36: a second call of execute_workflow on a workflow with tasks whose first
\* call ended completed finds every status completed, dispatches no task, and
\* ends failed with the unresolved-dependency error and progress 100.
RerunOfCompletedFails ==
    [][RerunOfCompleted =>
          /\ \A t \in Ids : status[t] = "completed" /\ dispatches'[t] = 0
          /\ wf_status' # "completed"
          /\ pc' = "idle" =>
                /\ wf_status' = "failed"
                /\ outcome'.kind = "raised"
                /\ outcome'.error.kind = "unresolved"
                /\ FracEq(progress', Hundred)]_vars

\* the coordinator has no slot and the workflow has a task without dependencies
ZeroCapacity ==
    /\ max_concurrent_tasks = 0
    /\ \E t \in Ids : tasks[t].dependencies = <<>>

\* C37: with max_concurrent_tasks = 0 and a task without dependencies, no
\* task is ever dispatched, no error is raised, and a started call of
\* execute_workflow stays in the loop with the workflow running.
ZeroCapacityNeverEnds ==
    ZeroCapacity =>
       /\ \A t \in Ids : dispatches[t] = 0 /\ status[t] = "pending"
       /\ running_tasks = {}
       /\ outcome = NoOutcome
       /\ error_message = NoError
       /\ wf_status \in {"idle", "running"}
       /\ runs >= 1 => wf_status = "running" /\ pc \in {"select", "check"}

\* C37 witness: with no slot, the loop is at its test again after a pass in
\* which a task was ready and none was dispatched.
ZeroCapacityLoops ==
    /\ ZeroCapacity
    /\ runs = 1
    /\ pc = "select"
    /\ ready_tasks # <<>>
    /\ wf_status = "running"

====
